---- MODULE Spec2Model ----
(***************************************************************************)
(* Finding Gnosis (src/game.js): the per-frame simulation step update(),   *)
(* the key handlers, startGame, the flash interval of resetPlayer and the  *)
(* delayed form reveal of completeLevel.                                   *)
(*                                                                         *)
(* Lengths and speeds are in TENTHS of a canvas pixel, so that GRAVITY     *)
(* (0.5) and the moving hazard's dy (1.2) are integers.  The player's      *)
(* numbers are multiples of 0.5 and exact in IEEE doubles; the hazard's    *)
(* sums of 1.2 take the same branches in doubles as in exact arithmetic    *)
(* on the trajectories modelled here (510 <-> 511.2, and 480 .. 490.8).    *)
(***************************************************************************)
EXTENDS Integers, Sequences, FiniteSets, TLC

VARIABLES
    gameRunning,   \* let gameRunning (game.js:33)
    player,        \* const player (game.js:36-46)
    hazards,       \* const hazards (game.js:59-64), a sequence of records
    keys,          \* const keys (game.js:67), on the three codes update() reads;
                   \* undefined is FALSE (both are falsy in the tests of update)
    flashTimers,   \* live setInterval timers of resetPlayer, by their `flashes` left
    formTimers,    \* pending setTimeout callbacks of completeLevel
    emailShown,    \* email-container displayed by showEmailForm
    flashAge,      \* history: effective ticks run since the oldest live flash timer started
    rightTicks,    \* history: running ticks so far if each had only ArrowRight down, else -1
    jumpPressed,   \* history: a keydown of ArrowUp has been delivered
    rectA, rectB,  \* arguments of a direct call of rectIntersect
    rectResult     \* <<its result>>, empty before the call

vars == <<gameRunning, player, hazards, keys, flashTimers, formTimers,
          emailShown, flashAge, rightTicks, jumpPressed, rectA, rectB,
          rectResult>>

rectVars == <<rectA, rectB, rectResult>>
histVars == <<flashAge, rightTicks, jumpPressed>>

----------------------------------------------------------------------------
(* Constants of game.js, in tenths of a pixel.                              *)

GAME_WIDTH == 8000      \* 800
GRAVITY == 5            \* 0.5
MOVE_SPEED == 40        \* 4
JUMP_SPEED == 120       \* 12

GOLD == "#FFD700"
DARK == "#333333"

ground == [x |-> 0, y |-> 5600, width |-> GAME_WIDTH, height |-> 400]
goal == [x |-> 7400, y |-> 4800, width |-> 400, height |-> 800]

KeyCodes == {"ArrowLeft", "ArrowRight", "ArrowUp"}

\* The player object as constructed.
InitPlayer ==
    [x |-> 500, y |-> 5000, width |-> 400, height |-> 600, vx |-> 0, vy |-> 0,
     onGround |-> FALSE, color |-> GOLD, complete |-> FALSE]

\* The shipped hazard list.  A hazard without dy (static) has dy = 0 here:
\* `if (hz.dy)` is false for undefined and for 0 alike.
InitHazards ==
    << [x |-> 4000, y |-> 5200, width |-> 500, height |-> 500,
        dy |-> 0, rangeTop |-> 0, rangeBottom |-> 0],
       [x |-> 5500, y |-> 5100, width |-> 500, height |-> 500,
        dy |-> 12, rangeTop |-> 4800, rangeBottom |-> 5400] >>

----------------------------------------------------------------------------
(* Bounds of the model.                                                     *)

MaxTimers == 1      \* flash timers alive at once
MaxFlashTicks == 3  \* effective ticks that run while a flash timer is alive
MaxWalk == 11       \* ticks counted by rightTicks

----------------------------------------------------------------------------
(* rectIntersect(a, b)                                                      *)

\* Mutant of rectIntersect: a must lie within b.
rectIntersect_contained(a, b) ==
    /\ a.x >= b.x
    /\ a.x + a.width <= b.x + b.width
    /\ a.y >= b.y
    /\ a.y + a.height <= b.y + b.height

\* Mutant of rectIntersect: closed intervals, so touching edges intersect.
rectIntersect_closed(a, b) ==
    /\ a.x <= b.x + b.width
    /\ a.x + a.width >= b.x
    /\ a.y <= b.y + b.height
    /\ a.y + a.height >= b.y

rectIntersect(a, b) ==
    /\ a.x < b.x + b.width
    /\ a.x + a.width > b.x
    /\ a.y < b.y + b.height
    /\ a.y + a.height > b.y

----------------------------------------------------------------------------
(* update(), in the order of the code.                                      *)

\* Mutant of horizontalVelocity: ArrowRight is tested first.
horizontalVelocity_rightFirst(ks) ==
    IF ks["ArrowRight"] THEN MOVE_SPEED
    ELSE IF ks["ArrowLeft"] THEN -MOVE_SPEED
    ELSE 0

\* Horizontal movement: the velocity chosen from the keys.
horizontalVelocity(ks) ==
    IF ks["ArrowLeft"] THEN -MOVE_SPEED
    ELSE IF ks["ArrowRight"] THEN MOVE_SPEED
    ELSE 0

\* Mutant of jumping: the onGround test is missing.
jumping_inAir(p, ks) ==
    IF ks["ArrowUp"]
    THEN [p EXCEPT !.vy = -JUMP_SPEED, !.onGround = FALSE]
    ELSE p

\* Mutant of jumping: onGround is not cleared at take-off.
jumping_keepOnGround(p, ks) ==
    IF ks["ArrowUp"] /\ p.onGround
    THEN [p EXCEPT !.vy = -JUMP_SPEED]
    ELSE p

\* Jumping.
jumping(p, ks) ==
    IF ks["ArrowUp"] /\ p.onGround
    THEN [p EXCEPT !.vy = -JUMP_SPEED, !.onGround = FALSE]
    ELSE p

\* Mutant of integrate: the position is updated before gravity is applied.
integrate_positionFirst(p) ==
    [p EXCEPT !.vy = p.vy + GRAVITY, !.x = p.x + p.vx, !.y = p.y + p.vy]

\* Apply gravity, update position.
integrate(p) ==
    LET vy1 == p.vy + GRAVITY
    IN  [p EXCEPT !.vy = vy1, !.x = p.x + p.vx, !.y = p.y + vy1]

\* Mutant of keepInBounds: the right-hand test forgets the player's width.
keepInBounds_noWidth(p) ==
    LET p1 == IF p.x < 0 THEN [p EXCEPT !.x = 0] ELSE p
    IN  IF p1.x > GAME_WIDTH
        THEN [p1 EXCEPT !.x = GAME_WIDTH - p1.width]
        ELSE p1

\* Keep player within horizontal bounds (two successive ifs).
keepInBounds(p) ==
    LET p1 == IF p.x < 0 THEN [p EXCEPT !.x = 0] ELSE p
    IN  IF p1.x + p1.width > GAME_WIDTH
        THEN [p1 EXCEPT !.x = GAME_WIDTH - p1.width]
        ELSE p1

\* Mutant of groundCollision: the snap forgets to zero vy.
groundCollision_keepVy(p) ==
    IF p.y + p.height > ground.y
    THEN [p EXCEPT !.y = ground.y - p.height, !.onGround = TRUE]
    ELSE p

\* Check collision with ground.
groundCollision(p) ==
    IF p.y + p.height > ground.y
    THEN [p EXCEPT !.y = ground.y - p.height, !.vy = 0, !.onGround = TRUE]
    ELSE p

\* Steps of update() on the player before the hazard loop.
movePlayer(p, ks) ==
    groundCollision(keepInBounds(integrate(
        jumping([p EXCEPT !.vx = horizontalVelocity(ks)], ks))))

\* Mutant of moveHazard: the range tests are strict.
moveHazard_strict(hz) ==
    IF hz.dy # 0
    THEN LET y1 == hz.y + hz.dy
         IN  IF y1 < hz.rangeTop \/ y1 + hz.height > hz.rangeBottom
             THEN [hz EXCEPT !.y = y1, !.dy = -hz.dy]
             ELSE [hz EXCEPT !.y = y1]
    ELSE hz

\* A hazard's own movement in the forEach body.
moveHazard(hz) ==
    IF hz.dy # 0
    THEN LET y1 == hz.y + hz.dy
         IN  IF y1 <= hz.rangeTop \/ y1 + hz.height >= hz.rangeBottom
             THEN [hz EXCEPT !.y = y1, !.dy = -hz.dy]
             ELSE [hz EXCEPT !.y = y1]
    ELSE hz

\* Mutant of resetPlayer: the position is not restored.
resetPlayer_keepPosition(p) ==
    [p EXCEPT !.vx = 0, !.vy = 0, !.onGround = FALSE]

\* Mutant of resetPlayer: the velocity is not cleared.
resetPlayer_keepVelocity(p) ==
    [p EXCEPT !.x = 500, !.y = 5000, !.onGround = FALSE]

\* The assignments of resetPlayer (the flash timer it starts is counted by
\* hazardLoop and started by Tick).
resetPlayer(p) ==
    [p EXCEPT !.x = 500, !.y = 5000, !.vx = 0, !.vy = 0, !.onGround = FALSE]

\* hazards.forEach: hazard i moves, then is tested against the player as the
\* earlier iterations left it.  acc = [player, hazards, resets].
RECURSIVE hazardLoop(_, _)
hazardLoop(acc, i) ==
    IF i > Len(acc.hazards) THEN acc
    ELSE LET hz == moveHazard(acc.hazards[i])
             hit == rectIntersect(acc.player, hz)
         IN  hazardLoop(
                 [player |-> IF hit THEN resetPlayer(acc.player) ELSE acc.player,
                  hazards |-> [acc.hazards EXCEPT ![i] = hz],
                  resets |-> acc.resets + (IF hit THEN 1 ELSE 0)],
                 i + 1)

\* The assignment of completeLevel.
completeLevel(p) == [p EXCEPT !.complete = TRUE]

\* Mutant of update: no early return on player.complete.
update_ignoreComplete(running, p, hs, ks) ==
    IF ~running
    THEN [player |-> p, hazards |-> hs, resets |-> 0, completed |-> FALSE]
    ELSE LET r == hazardLoop([player |-> movePlayer(p, ks), hazards |-> hs,
                              resets |-> 0], 1)
             done == rectIntersect(r.player, goal)
         IN  [player |-> IF done THEN completeLevel(r.player) ELSE r.player,
              hazards |-> r.hazards,
              resets |-> r.resets,
              completed |-> done /\ ~p.complete]

\* Mutant of update: complete is recomputed from the goal test in every frame.
update_recheck(running, p, hs, ks) ==
    IF ~running
    THEN [player |-> p, hazards |-> hs, resets |-> 0, completed |-> FALSE]
    ELSE LET r == hazardLoop([player |-> movePlayer(p, ks), hazards |-> hs,
                              resets |-> 0], 1)
             done == rectIntersect(r.player, goal)
         IN  [player |-> [r.player EXCEPT !.complete = done],
              hazards |-> r.hazards,
              resets |-> r.resets,
              completed |-> done /\ ~p.complete]

\* Mutant of update: no early return on player.complete, so completeLevel is
\* called in every frame the player spends in the goal.
update_completeAgain(running, p, hs, ks) ==
    IF ~running
    THEN [player |-> p, hazards |-> hs, resets |-> 0, completed |-> FALSE]
    ELSE LET r == hazardLoop([player |-> movePlayer(p, ks), hazards |-> hs,
                              resets |-> 0], 1)
             done == rectIntersect(r.player, goal)
         IN  [player |-> IF done THEN completeLevel(r.player) ELSE r.player,
              hazards |-> r.hazards,
              resets |-> r.resets,
              completed |-> done]

\* Mutant of update: no early return while the game is paused.
update_ignoreRunning(running, p, hs, ks) ==
    IF p.complete
    THEN [player |-> p, hazards |-> hs, resets |-> 0, completed |-> FALSE]
    ELSE LET r == hazardLoop([player |-> movePlayer(p, ks), hazards |-> hs,
                              resets |-> 0], 1)
             done == rectIntersect(r.player, goal)
         IN  [player |-> IF done THEN completeLevel(r.player) ELSE r.player,
              hazards |-> r.hazards,
              resets |-> r.resets,
              completed |-> done]

\* update(): the new player and hazards, the number of resetPlayer calls and
\* whether completeLevel was called.
update(running, p, hs, ks) ==
    IF ~running \/ p.complete
    THEN [player |-> p, hazards |-> hs, resets |-> 0, completed |-> FALSE]
    ELSE LET r == hazardLoop([player |-> movePlayer(p, ks), hazards |-> hs,
                              resets |-> 0], 1)
             done == rectIntersect(r.player, goal)
         IN  [player |-> IF done THEN completeLevel(r.player) ELSE r.player,
              hazards |-> r.hazards,
              resets |-> r.resets,
              completed |-> done]

----------------------------------------------------------------------------
(* The flash interval callback of resetPlayer, on a timer with n flashes    *)
(* left: the new color and whether the timer cleared itself.                *)

\* Mutant of flashColor: the branches of the toggle are swapped.
flashColor_swapped(color, n) ==
    IF n - 1 <= 0 THEN GOLD
    ELSE IF color = GOLD THEN GOLD ELSE DARK

flashColor(color, n) ==
    IF n - 1 <= 0 THEN GOLD
    ELSE IF color = GOLD THEN DARK ELSE GOLD

\* flashTimers[n] is the number of live flash timers whose closure holds
\* flashes = n.
NoTimers == [n \in 1..6 |-> 0]
liveTimers(ft) == ft[1] + ft[2] + ft[3] + ft[4] + ft[5] + ft[6]

\* History for the walking scenario.
nextRightTicks(running, p, ks) ==
    IF ~running \/ p.complete THEN rightTicks
    ELSE IF rightTicks >= 0 /\ rightTicks < MaxWalk
            /\ ks["ArrowRight"] /\ ~ks["ArrowLeft"] /\ ~ks["ArrowUp"]
         THEN rightTicks + 1
         ELSE -1

----------------------------------------------------------------------------
(* Actions.                                                                 *)

KeyDown(k) ==
    /\ keys' = [keys EXCEPT ![k] = TRUE]
    /\ jumpPressed' = (jumpPressed \/ k = "ArrowUp")
    /\ UNCHANGED <<gameRunning, player, hazards, flashTimers, formTimers,
                   emailShown, flashAge, rightTicks, rectVars>>

KeyUp(k) ==
    /\ keys' = [keys EXCEPT ![k] = FALSE]
    /\ UNCHANGED <<gameRunning, player, hazards, flashTimers, formTimers,
                   emailShown, histVars, rectVars>>

\* Mutant of startGame: the Begin handler also puts the player back at the
\* spawn point.
startGame_reset ==
    /\ gameRunning' = TRUE
    /\ player' = resetPlayer(player)
    /\ UNCHANGED <<hazards, keys, flashTimers, formTimers,
                   emailShown, histVars, rectVars>>

startGame ==
    /\ gameRunning' = TRUE
    /\ UNCHANGED <<player, hazards, keys, flashTimers, formTimers,
                   emailShown, histVars, rectVars>>

\* gameLoop: one animation frame (draw() changes no state).  r is the one
\* result of update(); the first two conjuncts are the model's bounds on
\* the flash timers: at most maxTimers alive, and, when aged, at most
\* MaxFlashTicks effective frames while one is alive (flashAge counts them).
gameLoop(maxTimers, aged) ==
    \E r \in {update(gameRunning, player, hazards, keys)} :
        /\ liveTimers(flashTimers) + r.resets <= maxTimers
        /\ ~aged \/ liveTimers(flashTimers) = 0 \/ flashAge < MaxFlashTicks
        /\ player' = r.player
        /\ hazards' = r.hazards
        /\ flashTimers' = [flashTimers EXCEPT ![6] = @ + r.resets]
        /\ formTimers' = formTimers + (IF r.completed THEN 1 ELSE 0)
        /\ flashAge' = IF ~aged \/ liveTimers(flashTimers) = 0
                           \/ ~gameRunning \/ player.complete
                        THEN flashAge ELSE flashAge + 1
        /\ rightTicks' = nextRightTicks(gameRunning, player, keys)
        /\ UNCHANGED <<gameRunning, keys, emailShown, jumpPressed, rectVars>>

Tick == gameLoop(MaxTimers, TRUE)

\* A flash callback whose counter is shared by all intervals instead of being
\* captured per resetPlayer call: every live interval steps down at once.
FlashCallback_shared(n) ==
    /\ flashTimers[n] > 0
    /\ player' = [player EXCEPT !.color = flashColor(player.color, n)]
    /\ flashTimers' = [m \in 1..6 |-> IF m = 6 THEN 0 ELSE flashTimers[m + 1]]
    /\ flashAge' = IF liveTimers(flashTimers') = 0 THEN 0 ELSE flashAge
    /\ UNCHANGED <<gameRunning, hazards, keys, formTimers, emailShown,
                   rightTicks, jumpPressed, rectVars>>

\* One firing of a flash interval whose closure holds flashes = n.
FlashCallback(n) ==
    /\ flashTimers[n] > 0
    /\ player' = [player EXCEPT !.color = flashColor(player.color, n)]
    /\ flashTimers' = IF n - 1 <= 0
                      THEN [flashTimers EXCEPT ![n] = @ - 1]
                      ELSE [flashTimers EXCEPT ![n] = @ - 1, ![n - 1] = @ + 1]
    /\ flashAge' = IF liveTimers(flashTimers') = 0 THEN 0 ELSE flashAge
    /\ UNCHANGED <<gameRunning, hazards, keys, formTimers, emailShown,
                   rightTicks, jumpPressed, rectVars>>

\* The setTimeout callback of completeLevel: showEmailForm().
FormCallback ==
    /\ formTimers > 0
    /\ formTimers' = formTimers - 1
    /\ emailShown' = TRUE
    /\ UNCHANGED <<gameRunning, player, hazards, keys, flashTimers,
                   histVars, rectVars>>

Init ==
    /\ gameRunning = FALSE
    /\ player = InitPlayer
    /\ hazards = InitHazards
    /\ keys = [k \in KeyCodes |-> FALSE]
    /\ flashTimers = NoTimers
    /\ formTimers = 0
    /\ emailShown = FALSE
    /\ flashAge = 0
    /\ rightTicks = 0
    /\ jumpPressed = FALSE
    /\ rectA = goal
    /\ rectB = goal
    /\ rectResult = << >>

Next ==
    \/ \E k \in KeyCodes : KeyDown(k)
    \/ \E k \in KeyCodes : KeyUp(k)
    \/ startGame
    \/ Tick
    \/ \E n \in 1..6 : FlashCallback(n)
    \/ FormCallback

Spec == Init /\ [][Next]_vars

\* The program with a host whose timer fires a pending setTimeout callback.
SpecTimerFires == Spec /\ WF_vars(FormCallback)

----------------------------------------------------------------------------
(* rectIntersect called directly on two rectangles with corners on a small  *)
(* grid and positive sizes.                                                 *)

\* The program with flash timers that may overlap: the player only walks
\* right into the first hazard, and the host may delay the flash callbacks
\* by any number of frames, so that a later resetPlayer call finds the timer
\* of an earlier one still alive.  At most MaxOverlap timers are alive.
MaxOverlap == 2

TickOverlap == gameLoop(MaxOverlap, FALSE)

NextFlash ==
    \/ KeyDown("ArrowRight")
    \/ KeyUp("ArrowRight")
    \/ startGame
    \/ TickOverlap
    \/ \E n \in 1..6 : FlashCallback(n)

SpecFlash == Init /\ [][NextFlash]_vars

MaxPos == 3
MaxSize == 2

Rects == [x : 0..MaxPos, y : 0..MaxPos, width : 1..MaxSize, height : 1..MaxSize]

InitRect ==
    /\ gameRunning = FALSE
    /\ player = InitPlayer
    /\ hazards = InitHazards
    /\ keys = [k \in KeyCodes |-> FALSE]
    /\ flashTimers = NoTimers
    /\ formTimers = 0
    /\ emailShown = FALSE
    /\ flashAge = 0
    /\ rightTicks = 0
    /\ jumpPressed = FALSE
    /\ rectA \in Rects
    /\ rectB \in Rects
    /\ rectResult = << >>

RectCall ==
    /\ rectResult = << >>
    /\ rectResult' = <<rectIntersect(rectA, rectB)>>
    /\ UNCHANGED <<gameRunning, player, hazards, keys, flashTimers, formTimers,
                   emailShown, histVars, rectA, rectB>>

SpecRect == InitRect /\ [][RectCall]_vars

----------------------------------------------------------------------------
(* update() as a function of its input state: the player, the keys and the  *)
(* flags are drawn from the sets below, the hazards are the shipped ones in *)
(* either phase of the moving hazard, and frames run from there.            *)

StepXs == {0, 20, 500, 3600, 3620, 4460, 4500, 5100, 7000, 7020, 7580, 7600}
StepYs == {5000, 4700, 4000}
StepVys == {-115, 0, 60}
StepVxs == {-MOVE_SPEED, 0, MOVE_SPEED}

StepHazards ==
    {InitHazards, [InitHazards EXCEPT ![2].y = 5112, ![2].dy = -12]}

InitStep ==
    /\ gameRunning \in BOOLEAN
    /\ \E x \in StepXs, y \in StepYs, vx \in StepVxs, vy \in StepVys,
          g \in BOOLEAN, c \in BOOLEAN, col \in {GOLD, DARK} :
          player = [InitPlayer EXCEPT !.x = x, !.y = y, !.vx = vx, !.vy = vy,
                                      !.onGround = g, !.complete = c,
                                      !.color = col]
    /\ hazards \in StepHazards
    /\ keys \in [KeyCodes -> BOOLEAN]
    /\ flashTimers = NoTimers
    /\ formTimers = 0
    /\ emailShown = FALSE
    /\ flashAge = 0
    /\ rightTicks = -1
    /\ jumpPressed = TRUE
    /\ rectA = goal
    /\ rectB = goal
    /\ rectResult = << >>

SpecStep == InitStep /\ [][Tick]_vars

----------------------------------------------------------------------------
(* An oscillating hazard that starts at its rangeTop moving down, in the    *)
(* place of the shipped moving hazard: <<height, dy>> drawn from            *)
(* HazardCases (the shipped 50 x 1.2, and heights up to the range with      *)
(* speeds that are exact in binary).                                        *)

HazardCases == {<<500, 12>>} \cup ({300, 500, 600} \X {5, 25, 70})

InitHazard ==
    /\ gameRunning = FALSE
    /\ player = InitPlayer
    /\ \E c \in HazardCases :
          hazards = [InitHazards EXCEPT ![2].y = InitHazards[2].rangeTop,
                                        ![2].height = c[1], ![2].dy = c[2]]
    /\ keys = [k \in KeyCodes |-> FALSE]
    /\ flashTimers = NoTimers
    /\ formTimers = 0
    /\ emailShown = FALSE
    /\ flashAge = 0
    /\ rightTicks = 0
    /\ jumpPressed = FALSE
    /\ rectA = goal
    /\ rectB = goal
    /\ rectResult = << >>

NextHazard == startGame \/ Tick

SpecHazard == InitHazard /\ [][NextHazard]_vars

----------------------------------------------------------------------------
(* Claims.                                                                  *)

Abs(n) == IF n < 0 THEN -n ELSE n

\* C1: in every state reached by key events, startGame and ticks, the
\* player's x satisfies 0 <= x <= GAME_WIDTH - player.width (760).
C1_XInBounds ==
    /\ 0 <= player.x
    /\ player.x <= GAME_WIDTH - player.width

\* C1 witness: the player has been clamped at the right wall.
C1_Witness == gameRunning /\ player.x = GAME_WIDTH - player.width

\* C2: the player's bottom edge is never below the ground surface, and
\* whenever onGround holds the bottom edge is exactly on it with vy = 0.
C2_NeverBelowGround ==
    /\ player.y + player.height <= ground.y
    /\ player.onGround =>
          /\ player.y + player.height = ground.y
          /\ player.vy = 0

\* C2 witness: the player has landed again after a jump carried it along.
C2_Witness == player.onGround /\ player.x > 4500 /\ keys["ArrowUp"]

\* Every hazard with an oscillation descriptor is within its range, up to
\* an overshoot of one step |dy|.
WithinRange(hs) ==
    \A i \in 1..Len(hs) :
        hs[i].dy # 0 =>
            /\ hs[i].rangeTop - Abs(hs[i].dy) <= hs[i].y
            /\ hs[i].y + hs[i].height <= hs[i].rangeBottom + Abs(hs[i].dy)

\* C3 (as claimed): in every reachable state of the program with the shipped
\* hazard list, every oscillating hazard is within its range, up to an
\* overshoot of one tick's step |dy|.
C3_HazardsWithinRange == WithinRange(hazards)

\* C4: player.complete is monotonic: no step of the program (key event,
\* frame, flash or form callback) takes it from true to false.
C4_CompleteMonotonic == [][player.complete => player.complete']_vars

\* C4 witness: the level was completed, the form timer fired and keys were
\* pressed afterwards or meanwhile.
C4_Witness == player.complete /\ emailShown /\ keys["ArrowLeft"]

\* C5: a frame that runs while player.complete is true changes neither the
\* player (position, velocity, onGround, complete, color) nor any hazard.
C5_CompleteIsNoOp ==
    [][(player.complete /\ Tick) => (player' = player /\ hazards' = hazards)]_vars

\* C5 witness: a complete, running game with the player in the air and a
\* movement key down, where an unguarded frame would move it.
C5_Witness ==
    /\ player.complete /\ gameRunning
    /\ keys["ArrowRight"] /\ ~keys["ArrowLeft"]
    /\ player.y = 4000 /\ player.x = 3600

AtSpawn(p) ==
    p.x = 500 /\ p.y = 5000 /\ p.vx = 0 /\ p.vy = 0 /\ ~p.onGround

Max(m, n) == IF m >= n THEN m ELSE n
Min(m, n) == IF m <= n THEN m ELSE n
\* The open intervals (l1, r1) and (l2, r2) have a point in common.
OpenOverlap(l1, r1, l2, r2) == Max(l1, l2) < Min(r1, r2)

EdgesTouch(a, b) ==
    \/ a.x + a.width = b.x
    \/ b.x + b.width = a.x
    \/ a.y + a.height = b.y
    \/ b.y + b.height = a.y

\* C7: rectIntersect is symmetric, true exactly when the open intervals
\* overlap on both axes, and false for rectangles with touching edges.
C7_RectIntersect ==
    rectResult # << >> =>
        /\ rectResult[1] = rectIntersect(rectB, rectA)
        /\ rectResult[1] <=>
              /\ OpenOverlap(rectA.x, rectA.x + rectA.width,
                             rectB.x, rectB.x + rectB.width)
              /\ OpenOverlap(rectA.y, rectA.y + rectA.height,
                             rectB.y, rectB.y + rectB.height)
        /\ EdgesTouch(rectA, rectB) => ~rectResult[1]

\* C7 witness: a call on rectangles that share a vertical edge and overlap
\* in y returned false.
C7_Witness ==
    /\ rectResult = <<FALSE>>
    /\ rectA.x + rectA.width = rectB.x
    /\ OpenOverlap(rectA.y, rectA.y + rectA.height,
                   rectB.y, rectB.y + rectB.height)

\* C8: an oscillating hazard that starts at rangeTop moving down keeps its
\* speed's size, moves by dy in every running frame, reverses exactly in
\* the frame in which its bottom edge reaches rangeBottom (moving down) or
\* its top edge reaches rangeTop (moving up), and is never beyond either
\* bound by more than |dy|.
C8_Step(hz, hz1) ==
    /\ hz1.y = hz.y + hz.dy
    /\ Abs(hz1.dy) = Abs(hz.dy)
    /\ hz.dy > 0 => (hz1.dy < 0 <=> hz1.y + hz1.height >= hz1.rangeBottom)
    /\ hz.dy < 0 => (hz1.dy > 0 <=> hz1.y <= hz1.rangeTop)

C8_Oscillates ==
    /\ []WithinRange(hazards)
    /\ [][(gameRunning /\ ~player.complete /\ Tick) =>
            \A i \in 1..Len(hazards) :
                hazards[i].dy # 0 => C8_Step(hazards[i], hazards'[i])]_vars

\* C8 witness: the hazard has gone down, reversed, come back to rangeTop
\* and reversed again.
C8_Witness ==
    /\ gameRunning /\ player.onGround
    /\ hazards[2].dy = 12
    /\ hazards[2].y = hazards[2].rangeTop

\* C9: while every running frame since the initial state had only
\* ArrowRight down, y = 500 and vy = 0 after each of the first 10 frames,
\* and after the 10th x = 90 and onGround is true.
C9_WalkRight ==
    /\ rightTicks \in 1..10 => (player.y = 5000 /\ player.vy = 0)
    /\ rightTicks = 10 => (player.x = 900 /\ player.onGround)

\* C9 witness: ten such frames have run.
C9_Witness == rightTicks = 10

\* The velocity the claim C10 expects for a key state.
C10_Expected(ks) ==
    CASE ks["ArrowLeft"] -> -MOVE_SPEED
      [] ~ks["ArrowLeft"] /\ ks["ArrowRight"] -> MOVE_SPEED
      [] OTHER -> 0

C10_Clamp(x) == Max(0, Min(GAME_WIDTH - player.width, x))

\* C10: in every frame that is not a no-op the player moves with the
\* velocity given by the keys alone (left wins over right): without a hazard
\* hit the frame ends with vx at that value and x advanced by it (clamped);
\* a frame with a hazard hit ends at the spawn point with vx = 0.
C10_VelocityFromKeys ==
    [][(gameRunning /\ ~player.complete /\ keys' = keys /\ Tick) =>
        IF flashTimers'[6] > flashTimers[6]
        THEN player'.vx = 0 /\ player'.x = 500
        ELSE /\ player'.vx = C10_Expected(keys)
             /\ player'.x = C10_Clamp(player.x + C10_Expected(keys))]_vars

\* C10 witness: with left and right both down the player has walked left
\* of the spawn point.
C10_Witness ==
    /\ keys["ArrowLeft"] /\ keys["ArrowRight"]
    /\ player.vx = -MOVE_SPEED /\ player.x = 460 /\ rightTicks = -1

\* C11 (as claimed): every step that changes a field of the player is a
\* frame (update()).
C11_OnlyUpdateMutatesPlayer ==
    [][(player' # player) => Tick]_vars

\* C11 (amended): every step that changes a player field other than color
\* is a frame, frames never change the color, and a step that changes the
\* color (the flash callback) changes no other player field.
C11_OnlyUpdateMovesPlayer ==
    [][/\ ([player' EXCEPT !.color = player.color] # player) => Tick
       /\ (player'.color # player.color) =>
             /\ [player' EXCEPT !.color = player.color] = player
             /\ ~Tick]_vars

\* C11 witness: a flash callback has darkened the player while the game
\* goes on.
C11_Witness == gameRunning /\ player.color = DARK /\ flashAge > 0

\* The form reveals scheduled so far: those pending and the one performed.
C12_Scheduled == formTimers + (IF emailShown THEN 1 ELSE 0)

\* C12: the form is shown only after complete is true; the reveal is
\* scheduled exactly once, in the step that sets complete, and is not
\* performed in that step; and once complete is true the form is
\* eventually shown if the host fires the timer.
C12_FormReveal ==
    /\ [](C12_Scheduled = IF player.complete THEN 1 ELSE 0)
    /\ [][(~player.complete /\ player.complete') =>
            (formTimers' = 1 /\ ~emailShown')]_vars
    /\ (player.complete ~> emailShown)

\* C12 witness: the form has been shown and no reveal is pending.
C12_Witness == player.complete /\ emailShown /\ formTimers = 0

\* C13: while the game is paused (startGame not yet called) the player and
\* the hazards are as constructed, whatever keys are down and however many
\* frames have run; and once running the game never returns to paused.
C13_PausedUntilStart ==
    /\ [](~gameRunning => (player = InitPlayer /\ hazards = InitHazards))
    /\ [][gameRunning => gameRunning']_vars

\* C13 witness: still paused with move and jump keys down.
C13_Witness ==
    ~gameRunning /\ keys["ArrowRight"] /\ keys["ArrowUp"] /\ ~keys["ArrowLeft"]

\* C14: in every frame that is not a no-op and hits no hazard, a jump
\* starts (vy becomes -JUMP_SPEED plus this frame's gravity, onGround
\* false) exactly when ArrowUp is down and the player is on the ground at
\* the start of the frame; otherwise vy only gains gravity or is zeroed by
\* landing, so ArrowUp has no effect in the air.
C14_JumpOnlyFromGround ==
    [][(gameRunning /\ ~player.complete /\ keys' = keys /\ Tick
        /\ flashTimers'[6] = flashTimers[6]) =>
        IF keys["ArrowUp"] /\ player.onGround
        THEN /\ player'.vy = -JUMP_SPEED + GRAVITY
             /\ ~player'.onGround
             /\ player'.y = player.y - JUMP_SPEED + GRAVITY
        ELSE /\ player'.vy # -JUMP_SPEED + GRAVITY
             /\ \/ player'.vy = player.vy + GRAVITY
                      /\ player'.onGround = player.onGround
                \/ player'.vy = 0 /\ player'.onGround]_vars

\* C14 witness: the player is falling in the air with ArrowUp held down.
C14_Witness ==
    ~player.onGround /\ keys["ArrowUp"] /\ player.vy = 50 /\ player.y < 4000

\* A step in which a flash timer with n flashes left fired: it goes on with
\* n - 1 left, or is cleared when n = 1; no other timer changes.
C15_Fired(n) ==
    /\ flashTimers[n] > 0
    /\ flashTimers' = IF n = 1
                      THEN [flashTimers EXCEPT ![1] = @ - 1]
                      ELSE [flashTimers EXCEPT ![n] = @ - 1, ![n - 1] = @ + 1]

\* C15: a frame starts one flash timer with 6 firings to go exactly when it
\* resets the player, and no timer otherwise; a timer alone alternates the
\* color from gold: dark after its 1st, 3rd and 5th firing, gold after the
\* others, and gold once it has cleared itself after the 6th; a step that
\* changes the color or the timers outside a frame is one firing of one
\* timer and changes nothing else.
C15_FlashTimer ==
    /\ [](/\ liveTimers(flashTimers) = 0 => player.color = GOLD
          /\ \A n \in 1..6 :
                (liveTimers(flashTimers) = 1 /\ flashTimers[n] = 1) =>
                    player.color = IF n % 2 = 0 THEN GOLD ELSE DARK)
    /\ [][(gameRunning /\ ~player.complete /\ keys' = keys /\ Tick) =>
            flashTimers' = IF AtSpawn(player')
                           THEN [flashTimers EXCEPT ![6] = @ + 1]
                           ELSE flashTimers]_vars
    /\ [][(player'.color # player.color \/ flashTimers' # flashTimers) =>
            \/ Tick
            \/ /\ \E n \in 1..6 : C15_Fired(n)
               /\ [player' EXCEPT !.color = player.color] = player
               /\ UNCHANGED <<gameRunning, hazards, keys, formTimers,
                              emailShown>>]_vars

\* C15 witness: frames have run while a timer was pending, which has fired
\* three times and left the player dark.
C15_Witness ==
    /\ flashTimers[3] = 1 /\ player.color = DARK
    /\ flashAge >= 2 /\ player.onGround

\* C16: resetPlayer calls that come while earlier flash timers are alive are
\* tolerated.  Each call adds its own timer with 6 firings to go; a firing
\* takes one firing from exactly one timer (remaining drops by 1) and ends
\* that timer when it was its last; it writes nothing but the color (the
\* last write wins), and the color is gold whenever no timer is alive.
C16_Remaining(ft) ==
    ft[1] + 2 * ft[2] + 3 * ft[3] + 4 * ft[4] + 5 * ft[5] + 6 * ft[6]

C16_OverlappingTimers ==
    /\ [](liveTimers(flashTimers) = 0 => player.color = GOLD)
    /\ [][(gameRunning /\ keys' = keys /\ TickOverlap) =>
            IF AtSpawn(player')
            THEN /\ liveTimers(flashTimers') = liveTimers(flashTimers) + 1
                 /\ C16_Remaining(flashTimers') = C16_Remaining(flashTimers) + 6
            ELSE flashTimers' = flashTimers]_vars
    /\ [][(flashTimers' # flashTimers /\ ~TickOverlap) =>
            /\ C16_Remaining(flashTimers') = C16_Remaining(flashTimers) - 1
            /\ \E n \in 1..6 :
                  /\ C15_Fired(n)
                  /\ liveTimers(flashTimers') =
                         liveTimers(flashTimers) - (IF n = 1 THEN 1 ELSE 0)
                  /\ player'.color \in {GOLD, DARK}
                  /\ n = 1 => player'.color = GOLD
            /\ [player' EXCEPT !.color = player.color] = player
            /\ UNCHANGED <<gameRunning, hazards, keys, formTimers, emailShown>>]_vars

\* Two timers alive, the older one about to fire for the last time while the
\* younger one has fired an odd number of times.
C16_Witness ==
    /\ liveTimers(flashTimers) = 2
    /\ flashTimers[1] = 1
    /\ player.color = GOLD

\* C17 (as claimed): the shipped moving hazard keeps its direction until it
\* reaches a bound of its range: in a frame where it turns from moving up to
\* moving down it is at rangeTop, and in a frame where it turns from moving
\* down to moving up its bottom edge is at rangeBottom.
C17_TurnsOnlyAtBounds ==
    [][/\ (hazards[2].dy < 0 /\ hazards'[2].dy > 0) =>
              hazards'[2].y <= hazards'[2].rangeTop
       /\ (hazards[2].dy > 0 /\ hazards'[2].dy < 0) =>
              hazards'[2].y + hazards'[2].height >= hazards'[2].rangeBottom]_vars

\* C18: in every reachable state, that is after every call of update(), the
\* player intersects no hazard at the hazard's current position; the spawn
\* rectangle intersects no hazard and not the goal; and the update() of the
\* next frame, whatever the state, calls resetPlayer at most once, and when
\* it does it leaves the player at the spawn point and does not complete.
C18_SpawnRect == [x |-> 500, y |-> 5000, width |-> 400, height |-> 600]

C18_NoOverlapAfterUpdate ==
    /\ \A i \in 1..Len(hazards) :
           /\ ~rectIntersect(player, hazards[i])
           /\ ~rectIntersect(C18_SpawnRect, hazards[i])
    /\ ~rectIntersect(C18_SpawnRect, goal)
    /\ \A r \in {update(gameRunning, player, hazards, keys)} :
           /\ r.resets <= 1
           /\ r.resets = 1 =>
                  /\ AtSpawn(r.player)
                  /\ ~r.completed
                  /\ ~r.player.complete

\* A frame has just reset the player while the user was holding jump.
C18_Witness ==
    /\ gameRunning
    /\ AtSpawn(player)
    /\ flashTimers[6] = 1
    /\ keys["ArrowUp"]

\* C19: the level is won only by jumping.  As long as no keydown of ArrowUp
\* has been delivered, the player stays on the ground line left of the static
\* hazard (x <= 360: one more step to the right is a hit and a reset), so it
\* is not in the goal and complete is false.  That the level can be won at
\* all is the reachability of C19_Witness.
C19_OnlyByJumping ==
    ~jumpPressed =>
        /\ ~keys["ArrowUp"]
        /\ ~player.complete
        /\ ~rectIntersect(player, goal)
        /\ player.y = ground.y - player.height
        /\ player.vy = 0
        /\ player.x + player.width <= hazards[1].x

\* The player has jumped over both hazards into the goal.
C19_Witness ==
    /\ jumpPressed
    /\ player.complete
    /\ rectIntersect(player, goal)
    /\ gameRunning

\* C20: the player never leaves the world vertically.  In every reachable
\* state 362 <= player.y <= 500 (a jump rises at most 138 above the resting
\* height 500) and player.vy >= -JUMP_SPEED + GRAVITY = -11.5; the player
\* stands on the ground exactly at the resting height.  The apex is the
\* resting height less 11.5 + 11 + ... + 0.5, the rise of C20_Frames frames.
C20_Frames == (JUMP_SPEED - GRAVITY) \div GRAVITY

C20_Apex ==
    ground.y - InitPlayer.height - GRAVITY * ((C20_Frames * (C20_Frames + 1)) \div 2)

C20_VerticalRange ==
    /\ C20_Apex <= player.y
    /\ player.y <= ground.y - player.height
    /\ player.vy >= -JUMP_SPEED + GRAVITY
    /\ player.onGround => (player.y = ground.y - player.height /\ player.vy = 0)

\* The top of a jump: 23 frames after leaving the ground.
C20_Witness ==
    /\ player.y = C20_Apex
    /\ player.vy = 0
    /\ ~player.onGround

====
